---- MODULE Spec2Model ----
(***************************************************************************)
(* The dpsl.diagnostics.* proxy layer over chrome.os.diagnostics.          *)
(*                                                                         *)
(* Two files of the repository implement it:                               *)
(*   src/src/diagnostics_manager.js  every manager method probes its entry *)
(*                                   point with isSupported() first;       *)
(*   src/unnamed/part_000            the same classes without the probe    *)
(*                                   (seven run-methods, no disk, no nvme).*)
(* The Routine class is the same in both.                                  *)
(*                                                                         *)
(* The model follows calls of the public methods.  A call reads the state  *)
(* of the chrome.os.diagnostics entry point it uses (an input of the call: *)
(* chrome is a mutable global), may invoke the backend, and returns a      *)
(* promise.  The backend settles its invocations in any order; the promise *)
(* reactions of the layer (the .then callback of a run-method, the         *)
(* adoption of the returned promise by the async function) run in the same *)
(* step as the settlement that triggers them.                              *)
(*                                                                         *)
(* Taken from the platform: the global chrome exists (line 17 of both      *)
(* files declares it); an entry point that is a function returns a         *)
(* promise; an entry point that throws when called is, inside the async    *)
(* method that calls it, the same as one that returns a rejected promise.  *)
(***************************************************************************)
EXTENDS Integers, Sequences, FiniteSets, TLC

VARIABLES
  calls,      \* the calls whose returned promise is still pending
  done,       \* the call whose promise settled last (Idle: none yet)
  routine     \* the Routine object the caller holds: the one returned last

vars == <<calls, done, routine>>

----------------------------------------------------------------------------
(* Bounds and value domains *)

\* calls that may be pending at the same time
MaxCalls == 1

\* the value of a missing property (response.id of an object without id)
Undefined == 0

\* routine identifiers the backend hands out
Ids == {7, 42}

\* what a Routine's id field can hold
IdValues == Ids \cup {Undefined}

\* opaque values the backend resolves getRoutineUpdate / getAvailableRoutines with
BackendValues == {"v1", "v2"}

\* values the backend rejects with
BackendErrors == {"e1", "e2"}

\* routine parameters of the caller, opaque to this layer
Params == {"params"}

NoParams == "none"

\* chrome.os.diagnostics[functionName] as a call finds it: chrome.os or
\* chrome.os.diagnostics undefined, the property undefined, a value that is
\* no function, a function
ChromeEnv == {"no_diagnostics", "absent", "not_function", "function"}

----------------------------------------------------------------------------
(* Values *)

Value(t, id, s) == [t |-> t, id |-> id, s |-> s]

UndefinedValue == Value("undefined", Undefined, "")

\* a backend response object {id: k}; k = Undefined: an object without id
Response(k) == Value("object", k, "")

\* an opaque backend value (a RoutineStatus, a list of routines)
Opaque(s) == Value("opaque", Undefined, s)

\* a rejection value of the backend
Reason(s) == Value("reason", Undefined, s)

\* new Error(message)
Error(message) == Value("Error", Undefined, message)

\* the engine's TypeError: calling what is not a function, reading a
\* property of undefined
TypeError == Value("TypeError", Undefined, "")

RoutineValue(r) == Value("Routine", r.id, "")

Pending == [st |-> "pending", val |-> UndefinedValue]

Resolved(v) == [st |-> "resolved", val |-> v]

Rejected(v) == [st |-> "rejected", val |-> v]

----------------------------------------------------------------------------
(* src/src/diagnostics_manager.js *)

ROUTINE_COMMAND_TYPE ==
  [CANCEL |-> "cancel", REMOVE |-> "remove", RESUME |-> "resume",
   GET_STATUS |-> "status"]

\* Routine.constructor with the assignment lost
Routine_Unassigned(id) == [id |-> Undefined]

\* Routine.constructor: this.id = id
Routine(id) == [id |-> id]

\* the request object with the command of getStatus() whatever was asked
Request_AlwaysStatus(this, command) ==
  [id |-> this.id, command |-> "status", params |-> NoParams]

\* the request object of _getRoutineUpdate
Request(this, command) == [id |-> this.id, command |-> command, params |-> NoParams]

\* the argument of a run-method's backend call
RunArg(params) == [id |-> Undefined, command |-> "", params |-> params]

isSupported(e) ==
  /\ e # "no_diagnostics"
  /\ e # "absent"
  /\ e = "function"

getErrorMessage(functionName) ==
  "DPSL: chrome.os.diagnostics." \o functionName \o "() is not found."
    \o " Consider updating Google Chrome."

\* typeof chrome.os.diagnostics[functionName] === 'function', evaluated by
\* the call expression itself: anything else throws a TypeError
Callable(e) == e = "function"

\* A run-method: the manager class and method, the name it probes and puts
\* in the error message (functionName; part_000 has none), the entry point
\* it calls (entry), and whether it takes and forwards params.
Method(file, manager, method, functionName, entry, params) ==
  [file |-> file, manager |-> manager, method |-> method,
   functionName |-> functionName, entry |-> entry, params |-> params]

Src == "src/diagnostics_manager.js"

Part000 == "unnamed/part_000"

runCapacityRoutine ==
  Method(Src, "BatteryManager", "runCapacityRoutine",
         "runBatteryCapacityRoutine", "runBatteryCapacityRoutine", FALSE)

runHealthRoutine ==
  Method(Src, "BatteryManager", "runHealthRoutine",
         "runBatteryHealthRoutine", "runBatteryHealthRoutine", FALSE)

runDischargeRoutine ==
  Method(Src, "BatteryManager", "runDischargeRoutine",
         "runBatteryDischargeRoutine", "runBatteryDischargeRoutine", TRUE)

runChargeRoutine ==
  Method(Src, "BatteryManager", "runChargeRoutine",
         "runBatteryChargeRoutine", "runBatteryChargeRoutine", TRUE)

runCacheRoutine ==
  Method(Src, "CpuManager", "runCacheRoutine",
         "runCpuCacheRoutine", "runCpuCacheRoutine", TRUE)

runStressRoutine ==
  Method(Src, "CpuManager", "runStressRoutine",
         "runCpuStressRoutine", "runCpuStressRoutine", TRUE)

runFloatingPointAccuracyRoutine ==
  Method(Src, "CpuManager", "runFloatingPointAccuracyRoutine",
         "runCpuFloatingPointAccuracyRoutine", "runCpuFloatingPointAccuracyRoutine", TRUE)

runPrimeSearchRoutine ==
  Method(Src, "CpuManager", "runPrimeSearchRoutine",
         "runCpuPrimeSearchRoutine", "runCpuPrimeSearchRoutine", TRUE)

runMemoryRoutine ==
  Method(Src, "MemoryManager", "runMemoryRoutine",
         "runMemoryRoutine", "runMemoryRoutine", FALSE)

runReadRoutine ==
  Method(Src, "DiskManager", "runReadRoutine",
         "runDiskReadRoutine", "runDiskReadRoutine", FALSE)

runSmartctlCheckRoutine ==
  Method(Src, "NvmeManager", "runSmartctlCheckRoutine",
         "runSmartctlCheckRoutine", "runSmartctlCheckRoutine", FALSE)

runWearLevelRoutine ==
  Method(Src, "NvmeManager", "runWearLevelRoutine",
         "runNvmeWearLevelRoutine", "runNvmeWearLevelRoutine", TRUE)

BatteryManager == {runCapacityRoutine, runHealthRoutine, runDischargeRoutine, runChargeRoutine}

CpuManager == {runCacheRoutine, runStressRoutine, runFloatingPointAccuracyRoutine, runPrimeSearchRoutine}

MemoryManager == {runMemoryRoutine}

DiskManager == {runReadRoutine}

NvmeManager == {runSmartctlCheckRoutine, runWearLevelRoutine}

\* DPSLDiagnosticsManager.constructor: battery, cpu, memory, disk, nvme
DPSLDiagnosticsManager ==
  BatteryManager \cup CpuManager \cup MemoryManager \cup DiskManager \cup NvmeManager

----------------------------------------------------------------------------
(* src/unnamed/part_000: the same methods without the probe *)

Part000_runCapacityRoutine ==
  Method(Part000, "BatteryManager", "runCapacityRoutine",
         "", "runBatteryCapacityRoutine", FALSE)

Part000_runHealthRoutine ==
  Method(Part000, "BatteryManager", "runHealthRoutine",
         "", "runBatteryHealthRoutine", FALSE)

Part000_runDischargeRoutine ==
  Method(Part000, "BatteryManager", "runDischargeRoutine",
         "", "runBatteryDischargeRoutine", TRUE)

Part000_runChargeRoutine ==
  Method(Part000, "BatteryManager", "runChargeRoutine",
         "", "runBatteryChargeRoutine", TRUE)

Part000_runCacheRoutine ==
  Method(Part000, "CpuManager", "runCacheRoutine",
         "", "runCpuCacheRoutine", TRUE)

Part000_runStressRoutine ==
  Method(Part000, "CpuManager", "runStressRoutine",
         "", "runCpuStressRoutine", TRUE)

Part000_runMemoryRoutine ==
  Method(Part000, "MemoryManager", "runMemoryRoutine",
         "", "runMemoryRoutine", FALSE)

Part000_BatteryManager == {Part000_runCapacityRoutine, Part000_runHealthRoutine, Part000_runDischargeRoutine, Part000_runChargeRoutine}

Part000_CpuManager == {Part000_runCacheRoutine, Part000_runStressRoutine}

Part000_MemoryManager == {Part000_runMemoryRoutine}

\* DPSLDiagnosticsManager.constructor of part_000: battery, cpu, memory
Part000_DPSLDiagnosticsManager ==
  Part000_BatteryManager \cup Part000_CpuManager \cup Part000_MemoryManager

----------------------------------------------------------------------------
(* Promises and calls *)

\* One invocation of a backend entry point: the entry point, its argument,
\* and the state of the promise the backend returned.
Invocation(fn, arg) ==
  [fn |-> fn, arg |-> arg, st |-> "pending", val |-> UndefinedValue]

\* The promise of an expression chrome.os.diagnostics.<fn>(arg) evaluated
\* inside an async function: the backend's promise when the entry point is a
\* function, else a promise rejected with the TypeError the expression
\* throws.  reqs: the invocations made; ret: the one whose promise this is
\* (0: none); out: the state of the promise.
\* probed: isSupported() was evaluated before the expression.
Invoke(fn, arg, e) ==
  IF Callable(e)
    THEN [probed |-> FALSE, reqs |-> <<Invocation(fn, arg)>>, ret |-> 1,
          out |-> Pending]
    ELSE [probed |-> FALSE, reqs |-> <<>>, ret |-> 0,
          out |-> Rejected(TypeError)]

\* the same expression reached after if (!isSupported(functionName)) return
Probed(p) == [p EXCEPT !.probed = TRUE]

\* Promise.reject(new Error(getErrorMessage(functionName)))
Unsupported(functionName) ==
  [probed |-> TRUE, reqs |-> <<>>, ret |-> 0,
   out |-> Rejected(Error(getErrorMessage(functionName)))]

\* _getRoutineUpdate of a Routine that remembers stop() and refuses afterwards
_getRoutineUpdate_RefusesStopped(this, command, e) ==
  IF this.stopped
    THEN [probed |-> FALSE, reqs |-> <<>>, ret |-> 0,
          out |-> Rejected(Error("stopped"))]
    ELSE Invoke("getRoutineUpdate", Request(this, command), e)

\* Routine._getRoutineUpdate(command): no probe, the request carries this.id
_getRoutineUpdate(this, command, e) ==
  Invoke("getRoutineUpdate", Request(this, command), e)

\* Routine.getStatus
getStatus(this, e) == _getRoutineUpdate(this, ROUTINE_COMMAND_TYPE.GET_STATUS, e)

\* Routine.resume
resume(this, e) == _getRoutineUpdate(this, ROUTINE_COMMAND_TYPE.RESUME, e)

\* stop() without the cancel request
stop_RemoveOnly(this, e) ==
  _getRoutineUpdate(this, ROUTINE_COMMAND_TYPE.REMOVE, e)

\* stop() returning the promise of the cancel request
stop_ReturnsCancel(this, e) ==
  LET cancel == _getRoutineUpdate(this, ROUTINE_COMMAND_TYPE.CANCEL, e)
      remove == _getRoutineUpdate(this, ROUTINE_COMMAND_TYPE.REMOVE, e)
  IN  [probed |-> FALSE,
       reqs |-> cancel.reqs \o remove.reqs,
       ret  |-> cancel.ret,
       out  |-> cancel.out]

\* Routine.stop: the cancel promise is dropped, the remove promise returned
stop(this, e) ==
  LET cancel == _getRoutineUpdate(this, ROUTINE_COMMAND_TYPE.CANCEL, e)
      remove == _getRoutineUpdate(this, ROUTINE_COMMAND_TYPE.REMOVE, e)
  IN  [probed |-> FALSE,
       reqs |-> cancel.reqs \o remove.reqs,
       ret  |-> IF remove.ret = 0 THEN 0 ELSE Len(cancel.reqs) + remove.ret,
       out  |-> remove.out]

\* A run-method of a manager class of diagnostics_manager.js: the probe,
\* then the backend call with the caller's params
runRoutine(m, params, e) ==
  IF ~isSupported(e)
    THEN Unsupported(m.functionName)
    ELSE Probed(Invoke(m.entry, RunArg(params), e))

\* A run-method of a manager class of part_000: the backend call
Part000_runRoutine(m, params, e) == Invoke(m.entry, RunArg(params), e)

\* DPSLDiagnosticsManager.getAvailableRoutines of diagnostics_manager.js
getAvailableRoutines(e) ==
  IF ~isSupported(e)
    THEN Unsupported("getAvailableRoutines")
    ELSE Probed(Invoke("getAvailableRoutines", RunArg(NoParams), e))

\* DPSLDiagnosticsManager.getAvailableRoutines of part_000
Part000_getAvailableRoutines(e) ==
  Invoke("getAvailableRoutines", RunArg(NoParams), e)

\* (response) => new Routine(response.id): reading .id of undefined throws
RunThen(response) ==
  IF response.t = "undefined"
    THEN Rejected(TypeError)
    ELSE Resolved(RoutineValue(Routine(response.id)))

\* a rejection caught and wrapped in an Error of this layer
PassRejection_Wrapped(reason) == Rejected(Error(reason.s))

\* .then(onFulfilled) without onRejected, and the adoption of a returned
\* promise by an async function: a rejection passes through
PassRejection(reason) == Rejected(reason)

\* the adoption of a returned promise by an async function: a fulfilment
\* passes through
PassValue(value) == Resolved(value)

\* The state of a call's promise once invocation i of the call has settled.
Settle(c, i) ==
  LET r == c.reqs[i] IN
  IF i # c.ret THEN c.out
  ELSE IF r.st = "rejected" THEN PassRejection(r.val)
  ELSE IF c.kind = "run" THEN RunThen(r.val)
  ELSE PassValue(r.val)

\* No Routine: the receiver of a manager call, the caller before a run-method
\* has returned one.
\* k: the identifier in the backend response the object was made from;
\* stopped: stop() has been called on the object (history, the code keeps
\* no such field).
NoRoutine == [live |-> FALSE, k |-> Undefined, id |-> Undefined, stopped |-> FALSE]

Idle ==
  [kind |-> "idle", file |-> "", method |-> "", fn |-> "", env |-> "",
   this |-> NoRoutine, probed |-> FALSE, reqs |-> <<>>, ret |-> 0,
   out |-> Pending]

\* A call of a public method: what was called, on which object, the entry
\* point it uses and how the call found it, and the promise it returned.
Call(kind, file, method, fn, e, this, p) ==
  [kind |-> kind, file |-> file, method |-> method, fn |-> fn, env |-> e,
   this |-> this, probed |-> p.probed, reqs |-> p.reqs, ret |-> p.ret,
   out |-> p.out]

\* what the backend may resolve an invocation with
Answers(fn) ==
  IF fn \in {"getRoutineUpdate", "getAvailableRoutines"}
    THEN {Opaque(s) : s \in BackendValues}
    ELSE {Response(k) : k \in IdValues} \cup {UndefinedValue}

----------------------------------------------------------------------------
(* Actions *)

Init ==
  /\ calls = {}
  /\ done = Idle
  /\ routine = NoRoutine

\* The caller has a new call's promise: pending, or settled at once.
Start(c) ==
  /\ Cardinality(calls) < MaxCalls
  /\ IF c.out.st = "pending"
       THEN calls' = calls \cup {c} /\ done' = Idle
       ELSE calls' = calls /\ done' = c

\* a run-method of a manager of diagnostics_manager.js
RunRoutine ==
  \E m \in DPSLDiagnosticsManager : \E e \in ChromeEnv :
    \E params \in (IF m.params THEN Params ELSE {NoParams}) :
      /\ Start(Call("run", m.file, m.method, m.entry, e, NoRoutine,
                    runRoutine(m, params, e)))
      /\ UNCHANGED routine

\* a run-method of a manager of part_000
Part000_RunRoutine ==
  \E m \in Part000_DPSLDiagnosticsManager : \E e \in ChromeEnv :
    \E params \in (IF m.params THEN Params ELSE {NoParams}) :
      /\ Start(Call("run", m.file, m.method, m.entry, e, NoRoutine,
                    Part000_runRoutine(m, params, e)))
      /\ UNCHANGED routine

GetAvailableRoutines ==
  \E e \in ChromeEnv :
    /\ Start(Call("list", Src, "getAvailableRoutines", "getAvailableRoutines",
                  e, NoRoutine, getAvailableRoutines(e)))
    /\ UNCHANGED routine

Part000_GetAvailableRoutines ==
  \E e \in ChromeEnv :
    /\ Start(Call("list", Part000, "getAvailableRoutines", "getAvailableRoutines",
                  e, NoRoutine, Part000_getAvailableRoutines(e)))
    /\ UNCHANGED routine

\* Routine is the same class, line for line, in both files: the calls on a
\* Routine are modelled once.
GetStatus ==
  \E e \in ChromeEnv :
    /\ routine.live
    /\ Start(Call("routine", Src, "getStatus", "getRoutineUpdate", e,
                  routine, getStatus(routine, e)))
    /\ UNCHANGED routine

Resume ==
  \E e \in ChromeEnv :
    /\ routine.live
    /\ Start(Call("routine", Src, "resume", "getRoutineUpdate", e,
                  routine, resume(routine, e)))
    /\ UNCHANGED routine

Stop ==
  \E e \in ChromeEnv :
    /\ routine.live
    /\ Start(Call("routine", Src, "stop", "getRoutineUpdate", e,
                  routine, stop(routine, e)))
    /\ routine' = [routine EXCEPT !.stopped = TRUE]

\* The call c with its invocation i settled by the backend as st, val, and
\* the reactions of the layer run.
Settled(c, i, st, val) ==
  LET c1 == [c EXCEPT !.reqs[i].st = st, !.reqs[i].val = val]
  IN  [c1 EXCEPT !.out = Settle(c1, i)]

\* The caller's view after the backend settled invocation i of call c.
Deliver(c, i, st, val) ==
  LET c2 == Settled(c, i, st, val) IN
  /\ IF c \in calls
       THEN IF c2.out.st = "pending"
              THEN calls' = (calls \ {c}) \cup {c2} /\ done' = done
              ELSE calls' = calls \ {c} /\ done' = c2
       ELSE calls' = calls /\ done' = c2
  /\ IF c2.out.st = "resolved" /\ c2.out.val.t = "Routine" /\ c.out.st = "pending"
       THEN routine' = [live |-> TRUE, k |-> c2.reqs[i].val.id,
                        id |-> c2.out.val.id, stopped |-> FALSE]
       ELSE routine' = routine

\* the calls the caller has a promise of
Calls == calls \cup (IF done.kind = "idle" THEN {} ELSE {done})

BackendResolve ==
  \E c \in Calls : \E i \in 1..Len(c.reqs) :
    /\ c.reqs[i].st = "pending"
    /\ \E v \in Answers(c.reqs[i].fn) : Deliver(c, i, "resolved", v)

BackendReject ==
  \E c \in Calls : \E i \in 1..Len(c.reqs) :
    /\ c.reqs[i].st = "pending"
    /\ \E s \in BackendErrors : Deliver(c, i, "rejected", Reason(s))

Next ==
  \/ RunRoutine
  \/ Part000_RunRoutine
  \/ GetAvailableRoutines
  \/ Part000_GetAvailableRoutines
  \/ GetStatus
  \/ Resume
  \/ Stop
  \/ BackendResolve
  \/ BackendReject

Spec == Init /\ [][Next]_vars

----------------------------------------------------------------------------
(* Vocabulary of the properties *)

\* the state of the backend's promise for an invocation
PromiseOf(r) == [st |-> r.st, val |-> r.val]

IsRun(c) == c.kind = "run"

IsList(c) == c.kind = "list"

IsRoutineCall(c, method) == c.kind = "routine" /\ c.method = method

\* the call evaluated a call expression on its entry point: it made an
\* invocation, or the expression threw because there was no function
Attempted(c) == c.reqs # <<>> \/ (c.ret = 0 /\ c.out = Rejected(TypeError))

\* the unsupported-capability error naming the call's entry point
UnsupportedError(c) == Error(getErrorMessage(c.fn))

\* the call's promise is that of its invocation i, unmodified
Returns(c, i) == c.out = PromiseOf(c.reqs[i])

\* the call made a Routine
Made(c) == c.out.st = "resolved" /\ c.out.val.t = "Routine"

CommandRequest(k, command) ==
  [fn |-> "getRoutineUpdate",
   arg |-> [id |-> k, command |-> command, params |-> NoParams]]

\* invocation r is the request {id: k, command} to getRoutineUpdate
IsRequest(r, k, command) ==
  [fn |-> r.fn, arg |-> r.arg] = CommandRequest(k, command)

----------------------------------------------------------------------------
(* C1 *)

\* C1: a stop() on a Routine with identifier k, getRoutineUpdate being a
\* function, makes exactly two invocations of getRoutineUpdate, first
\* {id: k, command: "cancel"} and then {id: k, command: "remove"}, and its
\* promise is the promise of the remove request (pending, resolved or
\* rejected with the same value), whatever the state of the cancel request.
C1_StopCancelThenRemove ==
  \A c \in Calls :
    IsRoutineCall(c, "stop") /\ Callable(c.env) =>
      /\ Len(c.reqs) = 2
      /\ IsRequest(c.reqs[1], c.this.id, "cancel")
      /\ IsRequest(c.reqs[2], c.this.id, "remove")
      /\ Returns(c, 2)

\* a stop() on Routine 7 whose cancel was rejected and whose remove was
\* resolved: the caller has the remove value
C1_Witness ==
  /\ IsRoutineCall(done, "stop")
  /\ done.this.id = 7
  /\ Len(done.reqs) = 2
  /\ done.reqs[1].st = "rejected"
  /\ done.reqs[2].st = "resolved"
  /\ done.out = Resolved(done.reqs[2].val)

----------------------------------------------------------------------------
(* C2 *)

\* C2: a run-method called while its entry point is absent or no function
\* rejects with the unsupported-capability error naming that entry point,
\* and invokes no backend function.
C2_RunUnsupported ==
  \A c \in Calls :
    IsRun(c) /\ ~Callable(c.env) =>
      /\ c.out = Rejected(UnsupportedError(c))
      /\ c.reqs = <<>>

\* The same for the run-methods of diagnostics_manager.js alone, where it
\* holds: the twelve methods probe the entry point they call.
C2_SrcRunUnsupported ==
  \A c \in Calls :
    IsRun(c) /\ c.file = Src /\ ~Callable(c.env) =>
      /\ c.out = Rejected(UnsupportedError(c))
      /\ c.reqs = <<>>

----------------------------------------------------------------------------
(* C3 *)

\* C3: a call that evaluates a call expression on an external entry point
\* has probed the entry point first, and the entry point is a function.
\* Stated for the methods of diagnostics_manager.js and of Routine; the
\* managers of part_000 never probe.
C3_ProbeBeforeEveryCall ==
  \A c \in Calls :
    c.file = Src /\ Attempted(c) => c.probed /\ Callable(c.env)

\* a getStatus() that invoked getRoutineUpdate without a probe
C3_StatusWithoutProbe ==
  /\ IsRoutineCall(done, "getStatus")
  /\ done.reqs # <<>>
  /\ ~done.probed

\* a getStatus() that found getRoutineUpdate absent and called it
C3_StatusCallsAbsent ==
  /\ IsRoutineCall(done, "getStatus")
  /\ done.env = "absent"
  /\ done.out = Rejected(TypeError)

----------------------------------------------------------------------------
(* C4 *)

\* C4: the Routine a run-method returns has the identifier of the backend's
\* response, and a Routine keeps the identifier it was made with through
\* every getStatus(), resume() and stop() called on it.
C4_IdOfResponse ==
  /\ \A c \in Calls :
       IsRun(c) /\ c.ret > 0 /\ c.reqs[1].st = "resolved"
                /\ c.reqs[1].val.t = "object" =>
         c.out = Resolved(Value("Routine", c.reqs[1].val.id, ""))
  /\ routine.live => routine.id = routine.k
  /\ \A c \in Calls : c.kind = "routine" => c.this.id = c.this.k

\* Routine 42, after a stop() on it, has answered a resume()
C4_Witness ==
  /\ routine.live /\ routine.k = 42 /\ routine.stopped
  /\ IsRoutineCall(done, "resume")
  /\ done.this.stopped
  /\ done.out.st = "resolved"

----------------------------------------------------------------------------
(* C5 *)

\* C5: getStatus() and resume() on a Routine with identifier k make at most
\* one invocation, exactly one when getRoutineUpdate is a function, which is
\* {id: k, command: "status"} for getStatus() and {id: k, command: "resume"}
\* for resume(); the call's promise is the promise of that invocation,
\* unmodified; no invocation of a call on a Routine carries an identifier
\* other than the Routine's.
C5_StatusAndResume ==
  \A c \in Calls :
    /\ IsRoutineCall(c, "getStatus") \/ IsRoutineCall(c, "resume") =>
         /\ Len(c.reqs) <= 1
         /\ Callable(c.env) =>
              /\ Len(c.reqs) = 1
              /\ IsRequest(c.reqs[1], c.this.id,
                           IF c.method = "getStatus" THEN "status" ELSE "resume")
              /\ Returns(c, 1)
    /\ c.kind = "routine" =>
         \A i \in 1..Len(c.reqs) : c.reqs[i].arg.id = c.this.id

\* a getStatus() on Routine 7 answered with the backend's value v2
C5_Witness ==
  /\ IsRoutineCall(done, "getStatus")
  /\ done.this.id = 7
  /\ done.out = Resolved(Opaque("v2"))

----------------------------------------------------------------------------
(* C6 *)

\* C6 as stated: whenever the backend rejects an invocation of a call (a
\* run-method's, a command of a Routine, the enumeration's), the call's
\* promise is rejected with that value, the call has made that invocation
\* once (no other invocation of the call has its argument), and the call
\* has made no Routine.
C6_EveryRejectionDelivered ==
  \A c \in Calls : \A i \in 1..Len(c.reqs) :
    c.reqs[i].st = "rejected" =>
      /\ c.out = Rejected(c.reqs[i].val)
      /\ \A j \in 1..Len(c.reqs) : c.reqs[j].arg = c.reqs[i].arg => j = i
      /\ ~Made(c)

\* C6, amended: whenever the backend rejects the invocation whose promise a
\* call returns (a run-method's, the enumeration's, the status or resume
\* request, the remove request of stop()), the call's promise is rejected
\* with that value and the call has made no Routine; every call makes each
\* of its invocations once: one, or for stop() the cancel and the remove
\* request.  The rejection of a cancel request reaches no caller.
C6_ReturnedRejectionDelivered ==
  \A c \in Calls :
    /\ c.ret > 0 /\ c.reqs[c.ret].st = "rejected" =>
         /\ c.out = Rejected(c.reqs[c.ret].val)
         /\ ~Made(c)
    /\ Callable(c.env) =>
         /\ Len(c.reqs) = (IF IsRoutineCall(c, "stop") THEN 2 ELSE 1)
         /\ \A i, j \in 1..Len(c.reqs) :
              c.reqs[i].arg = c.reqs[j].arg => i = j
    /\ \A i \in 1..Len(c.reqs) :
         i # c.ret /\ c.reqs[i].st = "rejected" => Returns(c, c.ret)

\* a run-method whose backend call was rejected with e2
C6_Witness ==
  /\ IsRun(done)
  /\ done.reqs # <<>>
  /\ done.reqs[1].st = "rejected"
  /\ done.out = Rejected(Reason("e2"))

----------------------------------------------------------------------------
(* C7 *)

\* C7: a rejected promise of a call carries the unsupported-capability error
\* of the call's entry point, or the rejection value of the backend
\* invocation whose promise the call returns.  Stated for the methods of
\* diagnostics_manager.js and of Routine; the managers of part_000 reject
\* with a TypeError whenever their entry point is no function.
C7_TwoErrorKinds ==
  \A c \in Calls :
    c.file = Src /\ c.out.st = "rejected" =>
      \/ c.out.val = UnsupportedError(c)
      \/ c.ret > 0 /\ c.reqs[c.ret].st = "rejected"
                   /\ c.out.val = c.reqs[c.ret].val

\* a run-method of diagnostics_manager.js whose backend call resolved with
\* no value: the promise is rejected with the TypeError of response.id
C7_TypeErrorOfNoResponse ==
  /\ IsRun(done) /\ done.file = Src
  /\ done.reqs # <<>>
  /\ PromiseOf(done.reqs[1]) = Resolved(UndefinedValue)
  /\ done.out = Rejected(TypeError)

\* a stop() with getRoutineUpdate absent: the promise is rejected with the
\* TypeError of the call expression
C7_TypeErrorOfAbsentUpdate ==
  /\ IsRoutineCall(done, "stop")
  /\ done.env = "absent"
  /\ done.out = Rejected(TypeError)

\* a run-method whose backend call resolved with an object without id:
\* no error, a Routine with an undefined id
C7_RoutineWithoutId ==
  /\ IsRun(done)
  /\ done.reqs # <<>>
  /\ PromiseOf(done.reqs[1]) = Resolved(Response(Undefined))
  /\ done.out = Resolved(Value("Routine", Undefined, ""))

----------------------------------------------------------------------------
(* C8 *)

\* C8: getAvailableRoutines() with the entry point a function invokes it
\* once and returns its promise unmodified; otherwise it rejects with the
\* unsupported-capability error naming getAvailableRoutines and invokes
\* nothing.
C8_GetAvailableRoutines ==
  \A c \in Calls :
    IsList(c) =>
      IF Callable(c.env)
        THEN /\ Len(c.reqs) = 1
             /\ c.reqs[1].fn = "getAvailableRoutines"
             /\ Returns(c, 1)
        ELSE /\ c.out = Rejected(Error(getErrorMessage("getAvailableRoutines")))
             /\ c.reqs = <<>>

\* The same for getAvailableRoutines() of diagnostics_manager.js alone,
\* where it holds.
C8_SrcGetAvailableRoutines ==
  \A c \in Calls :
    IsList(c) /\ c.file = Src =>
      IF Callable(c.env)
        THEN /\ Len(c.reqs) = 1
             /\ c.reqs[1].fn = "getAvailableRoutines"
             /\ Returns(c, 1)
        ELSE /\ c.out = Rejected(Error(getErrorMessage("getAvailableRoutines")))
             /\ c.reqs = <<>>

----------------------------------------------------------------------------
(* C9 *)

\* C9: a stop() that has made its cancel request has made its remove
\* request too, in whatever state the cancel request is (pending, resolved,
\* rejected): the remove request does not wait for it or depend on it.  The
\* promise of stop() is never the cancel request's: it is the remove
\* request's in every order of the two settlements.
C9_RemoveNotAfterCancel ==
  \A c \in Calls :
    IsRoutineCall(c, "stop") /\ c.reqs # <<>> =>
      /\ c.reqs[1].arg.command = "cancel"
      /\ Len(c.reqs) > 1 /\ c.reqs[2].arg.command = "remove"
      /\ c.ret # 1
      /\ c.out = PromiseOf(c.reqs[2])
      /\ c.reqs[2].st = "pending" => c.out.st = "pending"

\* the remove request settled first: the caller has its value while the
\* cancel request is still outstanding
C9_Witness ==
  /\ IsRoutineCall(done, "stop")
  /\ done.reqs # <<>>
  /\ done.reqs[1].st = "pending"
  /\ done.reqs[2].st = "resolved"
  /\ done.out.st = "resolved"

\* both requests of a stop() outstanding at the backend at the same time
C9_BothOutstanding ==
  \E c \in calls :
    /\ IsRoutineCall(c, "stop")
    /\ Len(c.reqs) = 2
    /\ c.reqs[1].st = "pending" /\ c.reqs[2].st = "pending"

----------------------------------------------------------------------------
(* C10 *)

\* C10: a getStatus(), resume() or stop() on a Routine on which stop() has
\* been called makes the invocations it makes on any Routine, with the
\* Routine's identifier, and returns the backend's promise; a promise it
\* rejects without the backend is the TypeError of a getRoutineUpdate that
\* is no function, as for any Routine.
C10_NoStoppedState ==
  \A c \in Calls :
    c.kind = "routine" /\ c.this.stopped =>
      /\ Callable(c.env) =>
           /\ c.reqs # <<>>
           /\ c.ret = Len(c.reqs)
           /\ Returns(c, c.ret)
           /\ \A i \in 1..Len(c.reqs) : c.reqs[i].arg.id = c.this.id
      /\ c.ret = 0 => ~Callable(c.env) /\ c.out = Rejected(TypeError)

\* a second stop() on Routine 7, answered by the backend with a rejection
C10_Witness ==
  /\ IsRoutineCall(done, "stop")
  /\ done.this.stopped
  /\ done.this.id = 7
  /\ Len(done.reqs) = 2
  /\ done.out = Rejected(done.reqs[2].val)

====
